---- MODULE Spec2Model ----
(***************************************************************************)
(* HomeEyeView: the SurveillanceSystem of src/app.py as a state machine.   *)
(*                                                                         *)
(* Request handlers (Flask routes, the socket handler, the PIR callback)   *)
(* run on their own threads; every successful start_recording spawns a     *)
(* thread running _record_video.  A step of the model is one statement (or *)
(* a run of statements touching no shared field) of one thread, labelled   *)
(* by the source line where it starts ("L199" is app.py line 199).         *)
(***************************************************************************)
EXTENDS Integers, Sequences, FiniteSets, TLC

VARIABLES
    PICAMERA_AVAILABLE,        \* module global, app.py 32-37
    ctor_ok,                   \* environment: would each backend constructor succeed
    constructed,               \* SurveillanceSystem.__init__ has run
    camera_adapter,            \* self.camera_adapter (class name, "None" before)
    is_recording,              \* self.is_recording
    recording_thread,          \* self.recording_thread (index into threads, 0 = None)
    motion_detection_enabled,  \* self.motion_detection_enabled
    camera_settings,           \* self.camera_settings
    auto_delete_days,          \* self.auto_delete_days
    folders,                   \* date folders present under video_storage_path
    last_return,               \* the message a SurveillanceSystem method returned last
    calls,                     \* requests and motion edges received so far
    procs,                     \* the request-handler threads
    threads,                   \* every recording thread created so far
    deleted_count,             \* the count cleanup_old_recordings reported last
    taken                      \* origins whose file name of the current clock
                               \* second a start_recording has derived

vars == <<PICAMERA_AVAILABLE, ctor_ok, constructed, camera_adapter, is_recording,
          recording_thread, motion_detection_enabled, camera_settings,
          auto_delete_days, folders, last_return, calls, procs, threads,
          deleted_count, taken>>

\* what a handler thread or a recording thread leaves alone unless it says otherwise
environment == <<PICAMERA_AVAILABLE, ctor_ok, constructed, camera_adapter>>
configuration == <<motion_detection_enabled, camera_settings, auto_delete_days>>
storage == <<folders, deleted_count, taken>>

-----------------------------------------------------------------------------
(* Bounds of the model *)

NumCallers == 2
MaxThreads == 2
MaxTime == 1
MaxCalls == 3

(* Program constants *)

recording_duration == 180
DefaultAutoDeleteDays == 7

Procs == 1..NumCallers

\* duration=None of start_recording; any other integer is a duration in seconds
NoDuration == -1

\* the durations a manual start request carries: absent, 0, a short cap
ManualDurations == {NoDuration, 0, 1}

Adapters == {"PiCameraAdapter", "OpenCVCameraAdapter", "SyntheticCameraAdapter"}

SettingKeys == {"brightness", "contrast", "zoom", "white_balance",
                "exposure_mode", "focus"}

\* keys a request may carry that are not settings
UnknownKeys == {"gain"}

\* values a request may carry (JSON values, written as text)
SettingValues == {"0", "1.5", "auto"}

\* float(value) succeeds on these
Numeric == {"0", "1.5"}

InitialSettings ==
    [k \in SettingKeys |->
        CASE k = "brightness" -> "0"
          [] k = "contrast"   -> "1.5"
          [] k = "zoom"       -> "1.5"
          [] OTHER            -> "auto"]

-----------------------------------------------------------------------------
(* Dates and the names of date folders *)

\* A file name is the sequence of its characters.
Digits == <<"0", "1", "2", "3", "4", "5", "6", "7", "8", "9">>

IsDigit(c) == \E i \in DOMAIN Digits : Digits[i] = c

DigitValue(c) == (CHOOSE i \in DOMAIN Digits : Digits[i] = c) - 1

\* int() of a run of digits
RECURSIVE Number(_)
Number(s) ==
    IF s = <<>> THEN 0
    ELSE 10 * Number(SubSeq(s, 1, Len(s) - 1)) + DigitValue(s[Len(s)])

\* n written with at least `width` digits, zero padded (%Y, %m, %d of strftime)
RECURSIVE Padded(_, _)
Padded(n, width) ==
    IF width <= 1 /\ n < 10 THEN <<Digits[n + 1]>>
    ELSE Padded(n \div 10, width - 1) \o <<Digits[(n % 10) + 1]>>

\* datetime.strftime("%Y-%m-%d")
strftime(date) ==
    Padded(date.year, 4) \o <<"-">> \o Padded(date.month, 2) \o <<"-">>
        \o Padded(date.day, 2)

IsLeap(year) == year % 4 = 0 /\ (year % 100 # 0 \/ year % 400 = 0)

DaysInMonth(year, month) ==
    IF month = 2 THEN (IF IsLeap(year) THEN 29 ELSE 28)
    ELSE IF month \in {4, 6, 9, 11} THEN 30 ELSE 31

\* the value raised in place of a date: ValueError
ValueError == [ok |-> FALSE, year |-> 0, month |-> 0, day |-> 0]

\* the shape "%Y-%m-%d" asks for.  strptime also takes a month or a day written
\* without its leading zero; start_recording never writes such a name and the
\* archives of the model hold none.
HasDateShape(name) ==
    /\ Len(name) = 10
    /\ name[5] = "-" /\ name[8] = "-"
    /\ \A i \in {1, 2, 3, 4, 6, 7, 9, 10} : IsDigit(name[i])

\* datetime.strptime(name, "%Y-%m-%d"): the date, or ValueError when the name
\* has not the shape or names no day of the calendar
strptime(name) ==
    IF ~HasDateShape(name) THEN ValueError
    ELSE LET year  == Number(SubSeq(name, 1, 4))
             month == Number(SubSeq(name, 6, 7))
             day   == Number(SubSeq(name, 9, 10))
         IN  IF /\ year >= 1
                /\ month \in 1..12
                /\ day >= 1 /\ day <= DaysInMonth(year, month)
             THEN [ok |-> TRUE, year |-> year, month |-> month, day |-> day]
             ELSE ValueError

RECURSIVE DaysBeforeMonth(_, _)
DaysBeforeMonth(year, month) ==
    IF month = 1 THEN 0
    ELSE DaysBeforeMonth(year, month - 1) + DaysInMonth(year, month - 1)

\* date.toordinal(): days since 0001-01-01, that day being 1
toordinal(date) ==
    LET y == date.year - 1
    IN  y * 365 + (y \div 4) - (y \div 100) + (y \div 400)
          + DaysBeforeMonth(date.year, date.month) + date.day

\* A datetime is a day (its ordinal) and a time of day; of the time of day the
\* program only ever tests whether it is 00:00:00 exactly (0) or later (1).
TimesOfDay == {0, 1}

Before(a, b) == a.day < b.day \/ (a.day = b.day /\ a.time < b.time)

\* the day the runs of the model take place in
CurrentDate == [year |-> 2024, month |-> 1, day |-> 15]

-----------------------------------------------------------------------------
(* Camera adapters *)

\* What adapter.get_frame can hand to SurveillanceSystem.get_frame: a frame, or
\* nothing (OpenCV read failed, or the backend raised and get_frame caught it).
\* The synthetic adapter always builds a frame.
CaptureOutcomes(adapter) ==
    IF adapter = "SyntheticCameraAdapter" THEN {"frame"} ELSE {"frame", "none"}

\* init_camera without the outer try/except of lines 155 and 166-169
init_camera_leaky(avail, ok) ==
    IF avail
    THEN IF ok.hardware
         THEN [adapter |-> "PiCameraAdapter", tried |-> <<"PiCameraAdapter">>]
         ELSE [adapter |-> "None", tried |-> <<"PiCameraAdapter">>]
    ELSE IF ok.generic
         THEN [adapter |-> "OpenCVCameraAdapter", tried |-> <<"OpenCVCameraAdapter">>]
         ELSE [adapter |-> "SyntheticCameraAdapter",
               tried |-> <<"OpenCVCameraAdapter", "SyntheticCameraAdapter">>]

\* SurveillanceSystem.init_camera as a function of the environment: the adapter
\* it leaves in self.camera_adapter and the constructors it called, in order.
init_camera(avail, ok) ==
    IF avail
    THEN IF ok.hardware
         THEN [adapter |-> "PiCameraAdapter", tried |-> <<"PiCameraAdapter">>]
         ELSE [adapter |-> "SyntheticCameraAdapter",
               tried |-> <<"PiCameraAdapter", "SyntheticCameraAdapter">>]
    ELSE IF ok.generic
         THEN [adapter |-> "OpenCVCameraAdapter", tried |-> <<"OpenCVCameraAdapter">>]
         ELSE [adapter |-> "SyntheticCameraAdapter",
               tried |-> <<"OpenCVCameraAdapter", "SyntheticCameraAdapter">>]

\* The environments: picamera2 importable or not, and whether constructing the
\* hardware and the generic backend would succeed.  Without the import the
\* hardware constructor cannot succeed.
Environments ==
    {e \in [avail : BOOLEAN, hardware : BOOLEAN, generic : BOOLEAN] :
        ~e.avail => ~e.hardware}

-----------------------------------------------------------------------------
(* Handler threads *)

\* cutoff_date before line 342 assigns it
NoDate == [day |-> 0, time |-> 0]

IdleProc ==
    [pc |-> "idle", op |-> "none", trigger |-> "none", duration |-> NoDuration,
     setting |-> "none", value |-> "none", joinee |-> 0, cutoff_date |-> NoDate]

\* a handler is called: its arguments are stored, nothing has run yet
Enter(p, op, pc, trigger, duration, setting, value) ==
    /\ constructed
    /\ procs[p].pc = "idle"
    /\ calls < MaxCalls
    /\ calls' = calls + 1
    /\ procs' = [procs EXCEPT ![p] =
                [pc |-> pc, op |-> op, trigger |-> trigger, duration |-> duration,
                 setting |-> setting, value |-> value, joinee |-> 0,
                 cutoff_date |-> NoDate]]

Goto(p, pc) == procs' = [procs EXCEPT ![p].pc = pc]

\* the handler returns nothing (or what it returns is not a method's message)
Return(p) == procs' = [procs EXCEPT ![p] = IdleProc]

\* the success flag that goes with each message (lines 200, 219, 222, 261, 267,
\* 291, 293, 296, 356)
Succeeded(message) ==
    message \in {"Recording started", "Recording stopped", "Updated", "Deleted"}

\* a SurveillanceSystem method returns (ok, message) and the handler with it
ReturnMessage(p, message) ==
    /\ Return(p)
    /\ last_return' = message

\* handlers that are inside start_recording, or may still enter it
Starting == {p \in Procs : procs[p].pc \in {"L184", "L199", "L203", "L204"}}

\* room for one more recording thread (the model keeps every thread it created)
Room == Len(threads) + Cardinality(Starting) < MaxThreads

\* a thread of _record_video(filepath, duration).  elapsed is
\* time.time() - start_time in seconds, counted up to the cap and to MaxTime at
\* most, and only where line 245 reads it (a duration that is set and not 0).
\* frame is the local of line 233, kept from the capture to the end of the tick.
\* stopped is history, no field of the program: a stop_recording has cleared
\* is_recording (line 263) while this thread had not left its loop.
NewThread(trigger, duration) ==
    [pc |-> "L227", trigger |-> trigger, duration |-> duration,
     elapsed |-> 0, sink |-> "unopened", frame |-> "unset", stopped |-> FALSE]

-----------------------------------------------------------------------------
(* Construction *)

\* the state before SurveillanceSystem() at line 362, in environment e and with
\* the entries `entries` in the recordings directory
Restart(e, entries) ==
    /\ PICAMERA_AVAILABLE = e.avail
    /\ ctor_ok = [hardware |-> e.hardware, generic |-> e.generic]
    /\ constructed = FALSE
    /\ camera_adapter = "None"
    /\ is_recording = FALSE
    /\ recording_thread = 0
    /\ motion_detection_enabled = FALSE
    /\ camera_settings = InitialSettings
    /\ auto_delete_days = DefaultAutoDeleteDays
    /\ folders = entries
    /\ last_return = "none"
    /\ calls = 0
    /\ procs = [p \in Procs |-> IdleProc]
    /\ threads = <<>>
    /\ deleted_count = 0
    /\ taken = {}

\* a first start: the recordings directory has just been made (line 144)
Boot(e) == Restart(e, {})

Init == \E e \in Environments : Boot(e)

\* SurveillanceSystem.__init__ : init_camera
InitCamera ==
    /\ ~constructed
    /\ camera_adapter' = init_camera(PICAMERA_AVAILABLE, ctor_ok).adapter
    /\ constructed' = TRUE
    /\ UNCHANGED <<PICAMERA_AVAILABLE, ctor_ok, is_recording, recording_thread,
                   configuration, storage, last_return, calls, procs, threads>>

-----------------------------------------------------------------------------
(* start_recording, and motion_detected which calls it *)

\* the date folder of datetime.now(): the runs of the model stay within one day
Today == strftime(CurrentDate)

\* POST /api/start-recording : surveillance.start_recording(duration=duration)
CallStartRecording(p, d) ==
    /\ Room
    /\ Enter(p, "start_recording", "L199", "manual", d, "none", "none")
    /\ UNCHANGED <<environment, configuration, is_recording, recording_thread,
                   storage, last_return, threads>>

\* the PIR callback (or /api/dev/simulate-motion) : surveillance.motion_detected
CallMotionDetected(p) ==
    /\ Room
    /\ Enter(p, "motion_detected", "L184", "none", NoDuration, "none", "none")
    /\ UNCHANGED <<environment, configuration, is_recording, recording_thread,
                   storage, last_return, threads>>

\* motion_detected without the test of motion_detection_enabled
MotionDetected_L184_unarmed(p) ==
    /\ procs[p].pc = "L184"
    /\ IF ~is_recording
       THEN procs' = [procs EXCEPT ![p].pc = "L199", ![p].trigger = "motion",
                                   ![p].duration = recording_duration]
       ELSE Return(p)
    /\ UNCHANGED <<environment, configuration, is_recording, recording_thread,
                   storage, last_return, calls, threads>>

\* line 184-186: the guard of motion_detected, then the call of start_recording
MotionDetected_L184(p) ==
    /\ procs[p].pc = "L184"
    /\ IF motion_detection_enabled /\ ~is_recording
       THEN procs' = [procs EXCEPT ![p].pc = "L199", ![p].trigger = "motion",
                                   ![p].duration = recording_duration]
       ELSE Return(p)
    /\ UNCHANGED <<environment, configuration, is_recording, recording_thread,
                   storage, last_return, calls, threads>>

\* start_recording without the gate of lines 199-200
StartRecording_L199_ungated(p) ==
    /\ procs[p].pc = "L199"
    /\ Goto(p, "L203")
    /\ UNCHANGED <<environment, configuration, is_recording, recording_thread,
                   storage, last_return, calls, threads>>

\* line 199-200: the gate of start_recording
StartRecording_L199(p) ==
    /\ procs[p].pc = "L199"
    /\ IF is_recording
       THEN ReturnMessage(p, "Already recording")
       ELSE Goto(p, "L203") /\ UNCHANGED last_return
    /\ UNCHANGED <<environment, configuration, is_recording, recording_thread,
                   storage, calls, threads>>

\* line 203: self.is_recording = True
StartRecording_L203(p) ==
    /\ procs[p].pc = "L203"
    /\ is_recording' = TRUE
    /\ Goto(p, "L204")
    /\ UNCHANGED <<environment, configuration, recording_thread,
                   storage, last_return, calls, threads>>

\* line 204-219: the path is derived, the date folder made, the thread created
\* and started
StartRecording_L204(p) ==
    /\ procs[p].pc = "L204"
    /\ folders' = folders \cup {Today}
    /\ taken' = taken \cup {procs[p].trigger}
    /\ UNCHANGED deleted_count
    /\ threads' = Append(threads, NewThread(procs[p].trigger, procs[p].duration))
    /\ recording_thread' = Len(threads) + 1
    /\ ReturnMessage(p, "Recording started")
    /\ UNCHANGED <<environment, configuration, is_recording, calls>>

\* line 207, 220-222: os.makedirs raises; the handler clears the flag
StartRecording_L220(p) ==
    /\ procs[p].pc = "L204"
    /\ is_recording' = FALSE
    /\ ReturnMessage(p, "Recording failed")
    /\ UNCHANGED <<environment, configuration, recording_thread, storage, calls,
                   threads>>

-----------------------------------------------------------------------------
(* _record_video, one thread per successful start *)

\* the recording threads there can be, and those there are
ThreadSlots == 1..MaxThreads
ThreadIds == 1..Len(threads)

SetThread(t, r) == threads' = [threads EXCEPT ![t] = r]

\* line 227-230: the sink is opened, the start time read
RecordVideo_L227(t) ==
    /\ t \in ThreadIds
    /\ threads[t].pc = "L227"
    /\ SetThread(t, [threads[t] EXCEPT !.pc = "L232", !.sink = "open"])
    /\ UNCHANGED <<environment, configuration, is_recording, recording_thread,
                   storage, last_return, calls, procs>>

\* line 228: the file cannot be created (no such folder, disk full, no codec).
\* cv2.VideoWriter raises nothing then: it returns a writer that is not opened,
\* whose write() discards the frame, and the thread goes on to its loop.
RecordVideo_L228_unopened(t) ==
    /\ t \in ThreadIds
    /\ threads[t].pc = "L227"
    /\ SetThread(t, [threads[t] EXCEPT !.pc = "L232", !.sink = "failed"])
    /\ UNCHANGED <<environment, configuration, is_recording, recording_thread,
                   storage, last_return, calls, procs>>

\* line 227-228 raise (cv2.error): control leaves the try block for line 253
RecordVideo_L228_raises(t) ==
    /\ t \in ThreadIds
    /\ threads[t].pc = "L227"
    /\ SetThread(t, [threads[t] EXCEPT !.pc = "L256", !.sink = "failed"])
    /\ UNCHANGED <<environment, configuration, is_recording, recording_thread,
                   storage, last_return, calls, procs>>

\* line 232-233: the loop test; when it passes, get_frame enters the adapter
RecordVideo_L232(t) ==
    /\ t \in ThreadIds
    /\ threads[t].pc = "L232"
    /\ SetThread(t, [threads[t] EXCEPT !.pc = IF is_recording THEN "L192" ELSE "L250"])
    /\ UNCHANGED <<environment, configuration, is_recording, recording_thread,
                   storage, last_return, calls, procs>>

\* a capture that finds no frame ends the recording
RecordVideo_L192_fatal(t) ==
    /\ t \in ThreadIds
    /\ threads[t].pc = "L192"
    /\ \E f \in CaptureOutcomes(camera_adapter) :
         SetThread(t, [threads[t] EXCEPT
            !.pc = IF f = "frame" THEN "L236" ELSE "L250",
            !.frame = f])
    /\ UNCHANGED <<environment, configuration, is_recording, recording_thread,
                   storage, last_return, calls, procs>>

\* line 192-195, 234: the adapter's capture returns (or raises, caught at 193)
RecordVideo_L192(t) ==
    /\ t \in ThreadIds
    /\ threads[t].pc = "L192"
    /\ \E f \in CaptureOutcomes(camera_adapter) :
         SetThread(t, [threads[t] EXCEPT
            !.pc = IF f = "frame" THEN "L236" ELSE "L245",
            !.frame = f])
    /\ UNCHANGED <<environment, configuration, is_recording, recording_thread,
                   storage, last_return, calls, procs>>

\* line 236-242: the frame is converted if the adapter is RGB, and written
RecordVideo_L236(t) ==
    /\ t \in ThreadIds
    /\ threads[t].pc = "L236"
    /\ SetThread(t, [threads[t] EXCEPT !.pc = "L245"])
    /\ UNCHANGED <<environment, configuration, is_recording, recording_thread,
                   storage, last_return, calls, procs>>

\* line 238/242 raise (cv2.error): control leaves the try block for line 253
RecordVideo_L253(t) ==
    /\ t \in ThreadIds
    /\ threads[t].pc = "L236"
    /\ SetThread(t, [threads[t] EXCEPT !.pc = "L256"])
    /\ UNCHANGED <<environment, configuration, is_recording, recording_thread,
                   storage, last_return, calls, procs>>

\* `if duration and ...`: None and 0 are both false
Truthy(duration) == duration # NoDuration /\ duration # 0

\* line 245: the duration test
CapReached(duration, elapsed) == Truthy(duration) /\ elapsed >= duration

\* line 245-248: break at the cap, else sleep and loop; the tick is over
RecordVideo_L245(t) ==
    /\ t \in ThreadIds
    /\ threads[t].pc = "L245"
    /\ SetThread(t, [threads[t] EXCEPT
            !.pc = IF CapReached(threads[t].duration, threads[t].elapsed)
                   THEN "L250" ELSE "L232",
            !.frame = "unset"])
    /\ UNCHANGED <<environment, configuration, is_recording, recording_thread,
                   storage, last_return, calls, procs>>

\* line 250-251: out.release(), which closes the file of a writer that has one
RecordVideo_L250(t) ==
    /\ t \in ThreadIds
    /\ threads[t].pc = "L250"
    /\ SetThread(t, [threads[t] EXCEPT
            !.pc = "L256",
            !.sink = IF @ = "open" THEN "closed" ELSE @])
    /\ UNCHANGED <<environment, configuration, is_recording, recording_thread,
                   storage, last_return, calls, procs>>

\* line 255-256: finally: self.is_recording = False; the thread ends
RecordVideo_L256(t) ==
    /\ t \in ThreadIds
    /\ threads[t].pc = "L256"
    /\ is_recording' = FALSE
    /\ SetThread(t, [threads[t] EXCEPT !.pc = "done"])
    /\ UNCHANGED <<environment, configuration, recording_thread,
                   storage, last_return, calls, procs>>

\* the threads whose elapsed time line 245 still reads and the model still counts
Timed == {t \in ThreadIds :
            /\ threads[t].pc \notin {"L227", "L256", "done"}
            /\ Truthy(threads[t].duration)
            /\ threads[t].elapsed < threads[t].duration
            /\ threads[t].elapsed < MaxTime}

\* a second of time passes: the next timestamp of line 204 is a new one
Advance ==
    /\ Timed # {} \/ taken # {}
    /\ threads' = [t \in ThreadIds |->
                     IF t \in Timed
                     THEN [threads[t] EXCEPT !.elapsed = @ + 1]
                     ELSE threads[t]]
    /\ taken' = {}
    /\ UNCHANGED <<environment, configuration, is_recording, recording_thread,
                   folders, deleted_count, last_return, calls, procs>>

-----------------------------------------------------------------------------
(* stop_recording *)

\* POST /api/stop-recording
CallStopRecording(p) ==
    /\ Enter(p, "stop_recording", "L260", "none", NoDuration, "none", "none")
    /\ UNCHANGED <<environment, configuration, is_recording, recording_thread,
                   storage, last_return, threads>>

\* stop_recording without the gate of lines 260-261
StopRecording_L260_ungated(p) ==
    /\ procs[p].pc = "L260"
    /\ Goto(p, "L263")
    /\ UNCHANGED <<environment, configuration, is_recording, recording_thread,
                   storage, last_return, calls, threads>>

\* line 260-261: the gate of stop_recording
StopRecording_L260(p) ==
    /\ procs[p].pc = "L260"
    /\ IF ~is_recording
       THEN ReturnMessage(p, "Not currently recording")
       ELSE Goto(p, "L263") /\ UNCHANGED last_return
    /\ UNCHANGED <<environment, configuration, is_recording, recording_thread,
                   storage, calls, threads>>

\* line 263: self.is_recording = False.  The recordings this asks to stop are
\* those whose thread has not left its loop.
StopRecording_L263(p) ==
    /\ procs[p].pc = "L263"
    /\ is_recording' = FALSE
    /\ Goto(p, "L264")
    /\ threads' = [t \in ThreadIds |->
                     IF threads[t].pc \in {"L227", "L232", "L192", "L236", "L245"}
                     THEN [threads[t] EXCEPT !.stopped = TRUE]
                     ELSE threads[t]]
    /\ UNCHANGED <<environment, configuration, recording_thread,
                   storage, last_return, calls>>

\* line 264-265: self.recording_thread is read; join(timeout=5) begins on it
StopRecording_L264(p) ==
    /\ procs[p].pc = "L264"
    /\ IF recording_thread = 0
       THEN ReturnMessage(p, "Recording stopped")
       ELSE /\ procs' = [procs EXCEPT ![p].pc = "L265",
                                      ![p].joinee = recording_thread]
            /\ UNCHANGED last_return
    /\ UNCHANGED <<environment, configuration, is_recording, recording_thread,
                   storage, calls, threads>>

\* line 265-267: join returns because the thread has ended
StopRecording_L265(p) ==
    /\ procs[p].pc = "L265"
    /\ threads[procs[p].joinee].pc = "done"
    /\ ReturnMessage(p, "Recording stopped")
    /\ UNCHANGED <<environment, configuration, is_recording, recording_thread,
                   storage, calls, threads>>

\* join() with no timeout: it returns only when the thread has ended
StopRecording_L265_unbounded(p) ==
    /\ procs[p].pc = "L265"
    /\ threads[procs[p].joinee].pc # "done"
    /\ FALSE
    /\ ReturnMessage(p, "Recording stopped")
    /\ UNCHANGED <<environment, configuration, is_recording, recording_thread,
                   storage, calls, threads>>

\* line 265-267: join returns because its timeout passed with the thread still
\* running.  The model puts no bound on how long a thread stays at a step (a
\* blocked capture, a starved thread), so the timeout can pass at any step.
StopRecording_L265_timeout(p) ==
    /\ procs[p].pc = "L265"
    /\ threads[procs[p].joinee].pc # "done"
    /\ ReturnMessage(p, "Recording stopped")
    /\ UNCHANGED <<environment, configuration, is_recording, recording_thread,
                   storage, calls, threads>>

-----------------------------------------------------------------------------
(* handle_frame_request *)

\* socket event request_frame
CallFrameRequest(p) ==
    /\ Enter(p, "handle_frame_request", "L432", "none", NoDuration, "none", "none")
    /\ UNCHANGED <<environment, configuration, is_recording, recording_thread,
                   storage, last_return, threads>>

\* a frame request that goes through the recorder's flag
HandleFrameRequest_L432_intrusive(p) ==
    /\ procs[p].pc = "L432"
    /\ Goto(p, "L192")
    /\ is_recording' = FALSE
    /\ UNCHANGED <<environment, configuration, recording_thread,
                   storage, last_return, calls, threads>>

\* line 432, 188-192: surveillance.get_frame() enters the adapter's capture
HandleFrameRequest_L432(p) ==
    /\ procs[p].pc = "L432"
    /\ Goto(p, "L192")
    /\ UNCHANGED <<environment, configuration, is_recording, recording_thread,
                   storage, last_return, calls, threads>>

\* line 192-195, 433-445: the capture returns; a frame is encoded and emitted
HandleFrameRequest_L192(p) ==
    /\ procs[p].pc = "L192"
    /\ Return(p)
    /\ UNCHANGED <<environment, configuration, is_recording, recording_thread,
                   storage, last_return, calls, threads>>

-----------------------------------------------------------------------------
(* the one-statement handlers *)

\* POST /api/toggle-motion-detection, line 391
ToggleMotionDetection ==
    /\ constructed
    /\ calls < MaxCalls
    /\ calls' = calls + 1
    /\ motion_detection_enabled' = ~motion_detection_enabled
    /\ UNCHANGED <<environment, camera_settings, auto_delete_days, is_recording,
                   recording_thread, storage, last_return, procs, threads>>

-----------------------------------------------------------------------------
(* The recorder: every handler that touches a recording, and the threads *)

\* one environment for each adapter class init_camera can select
RecEnvironments ==
    {e \in Environments : e.hardware = e.avail /\ (e.avail => e.generic)}

InitRec == \E e \in RecEnvironments : Boot(e)

Next ==
    \/ InitCamera
    \/ \E p \in Procs, d \in ManualDurations : CallStartRecording(p, d)
    \/ \E p \in Procs : CallMotionDetected(p)
    \/ \E p \in Procs : MotionDetected_L184(p)
    \/ \E p \in Procs : StartRecording_L199(p)
    \/ \E p \in Procs : StartRecording_L203(p)
    \/ \E p \in Procs : StartRecording_L204(p)
    \/ \E p \in Procs : StartRecording_L220(p)
    \/ \E t \in ThreadSlots : RecordVideo_L227(t)
    \/ \E t \in ThreadSlots : RecordVideo_L228_unopened(t)
    \/ \E t \in ThreadSlots : RecordVideo_L228_raises(t)
    \/ \E t \in ThreadSlots : RecordVideo_L232(t)
    \/ \E t \in ThreadSlots : RecordVideo_L192(t)
    \/ \E t \in ThreadSlots : RecordVideo_L236(t)
    \/ \E t \in ThreadSlots : RecordVideo_L253(t)
    \/ \E t \in ThreadSlots : RecordVideo_L245(t)
    \/ \E t \in ThreadSlots : RecordVideo_L250(t)
    \/ \E t \in ThreadSlots : RecordVideo_L256(t)
    \/ Advance
    \/ \E p \in Procs : CallStopRecording(p)
    \/ \E p \in Procs : StopRecording_L260(p)
    \/ \E p \in Procs : StopRecording_L263(p)
    \/ \E p \in Procs : StopRecording_L264(p)
    \/ \E p \in Procs : StopRecording_L265(p)
    \/ \E p \in Procs : StopRecording_L265_timeout(p)
    \/ \E p \in Procs : CallFrameRequest(p)
    \/ \E p \in Procs : HandleFrameRequest_L432(p)
    \/ \E p \in Procs : HandleFrameRequest_L192(p)
    \/ ToggleMotionDetection

Spec == InitRec /\ [][Next]_vars

-----------------------------------------------------------------------------
(* Starting and stopping, with handlers that keep running *)

\* the steps of stop_recording in handler p
StopRecordingSteps(p) ==
    \/ StopRecording_L260(p)
    \/ StopRecording_L263(p)
    \/ StopRecording_L264(p)
    \/ StopRecording_L265(p)
    \/ StopRecording_L265_timeout(p)

NextStop ==
    \/ InitCamera
    \/ \E p \in Procs, d \in ManualDurations : CallStartRecording(p, d)
    \/ \E p \in Procs : StartRecording_L199(p)
    \/ \E p \in Procs : StartRecording_L203(p)
    \/ \E p \in Procs : StartRecording_L204(p)
    \/ \E p \in Procs : StartRecording_L220(p)
    \/ \E t \in ThreadSlots : RecordVideo_L227(t)
    \/ \E t \in ThreadSlots : RecordVideo_L232(t)
    \/ \E t \in ThreadSlots : RecordVideo_L192(t)
    \/ \E t \in ThreadSlots : RecordVideo_L236(t)
    \/ \E t \in ThreadSlots : RecordVideo_L253(t)
    \/ \E t \in ThreadSlots : RecordVideo_L245(t)
    \/ \E t \in ThreadSlots : RecordVideo_L250(t)
    \/ \E t \in ThreadSlots : RecordVideo_L256(t)
    \/ Advance
    \/ \E p \in Procs : CallStopRecording(p)
    \/ \E p \in Procs : StopRecordingSteps(p)

\* A request handler is a thread of the server and is scheduled again and
\* again until it returns.  Nothing is asked of the recording threads: a
\* capture or a write may block for ever.
SpecStop ==
    /\ InitRec
    /\ [][NextStop]_vars
    /\ \A p \in Procs : WF_vars(StopRecordingSteps(p))

-----------------------------------------------------------------------------
(* Configuration: construction in every environment, and the settings *)

\* POST /api/camera-settings : surveillance.update_camera_setting(setting, value)
CallUpdateCameraSetting(p, k, v) ==
    /\ Enter(p, "update_camera_setting", "L271", "none", NoDuration, k, v)
    /\ UNCHANGED <<environment, configuration, is_recording, recording_thread,
                   storage, last_return, threads>>

\* lines 276-278: the adapter takes live controls
LiveControl == PICAMERA_AVAILABLE /\ camera_adapter = "PiCameraAdapter"

\* lines 280-288: the settings that are applied to the camera
Applied == {"brightness", "contrast", "white_balance"}

\* update_camera_setting without the membership test of line 272
UpdateCameraSetting_unchecked(p) ==
    /\ procs[p].pc = "L271"
    /\ camera_settings' =
            [k \in DOMAIN camera_settings \cup {procs[p].setting} |->
                IF k = procs[p].setting THEN procs[p].value ELSE camera_settings[k]]
    /\ ReturnMessage(p, "Updated")
    /\ UNCHANGED <<environment, motion_detection_enabled, auto_delete_days,
                   is_recording, recording_thread, storage, calls, threads>>

\* lines 271-293: update_camera_setting with nothing raised
UpdateCameraSetting_L271(p) ==
    /\ procs[p].pc = "L271"
    /\ IF procs[p].setting \in DOMAIN camera_settings
       THEN /\ camera_settings' =
                    [camera_settings EXCEPT ![procs[p].setting] = procs[p].value]
            /\ (LiveControl /\ procs[p].setting \in {"brightness", "contrast"})
                    => procs[p].value \in Numeric
            /\ ReturnMessage(p, "Updated")
       ELSE /\ UNCHANGED camera_settings
            /\ ReturnMessage(p, "Invalid setting")
    /\ UNCHANGED <<environment, motion_detection_enabled, auto_delete_days,
                   is_recording, recording_thread, storage, calls, threads>>

\* lines 273-288, 295-296: the value is stored, then float(value) or
\* set_controls raises and the handler answers "Failed to update"
UpdateCameraSetting_L295(p) ==
    /\ procs[p].pc = "L271"
    /\ procs[p].setting \in DOMAIN camera_settings
    /\ LiveControl
    /\ procs[p].setting \in Applied
    /\ camera_settings' =
            [camera_settings EXCEPT ![procs[p].setting] = procs[p].value]
    /\ ReturnMessage(p, "Failed to update")
    /\ UNCHANGED <<environment, motion_detection_enabled, auto_delete_days,
                   is_recording, recording_thread, storage, calls, threads>>

\* the values of "days" a request carries
AutoDeleteInputs == {-1, 0, 30}

\* POST /api/set-auto-delete, lines 425-426
SetAutoDelete(days) ==
    /\ constructed
    /\ calls < MaxCalls
    /\ calls' = calls + 1
    /\ auto_delete_days' = days
    /\ UNCHANGED <<environment, motion_detection_enabled, camera_settings,
                   is_recording, recording_thread, storage, last_return, procs,
                   threads>>

NextConfig ==
    \/ InitCamera
    \/ \E p \in Procs, k \in SettingKeys \cup UnknownKeys, v \in SettingValues :
            CallUpdateCameraSetting(p, k, v)
    \/ \E p \in Procs : UpdateCameraSetting_L271(p)
    \/ \E p \in Procs : UpdateCameraSetting_L295(p)
    \/ \E days \in AutoDeleteInputs : SetAutoDelete(days)
    \/ ToggleMotionDetection

SpecConfig == Init /\ [][NextConfig]_vars

-----------------------------------------------------------------------------
(* Retention: cleanup_old_recordings over the recordings directory *)

\* line 348 with <= in place of <
Expired_inclusive(name, cutoff_date) ==
    LET folder_date == strptime(name)
    IN  /\ folder_date.ok
        /\ ~Before(cutoff_date, [day |-> toordinal(folder_date), time |-> 0])

\* lines 347-348: the entry parses as a date (the datetime of its midnight) and
\* that is before the cutoff; an entry that raises ValueError is passed over
Expired(name, cutoff_date) ==
    LET folder_date == strptime(name)
    IN  /\ folder_date.ok
        /\ Before([day |-> toordinal(folder_date), time |-> 0], cutoff_date)

\* lines 345-354: the entries the loop removes
Swept(entries, cutoff_date) == {name \in entries : Expired(name, cutoff_date)}

\* POST /api/cleanup-old : surveillance.cleanup_old_recordings()
CallCleanupOld(p) ==
    /\ Enter(p, "cleanup_old_recordings", "L342", "none", NoDuration, "none", "none")
    /\ UNCHANGED <<environment, configuration, is_recording, recording_thread,
                   storage, last_return, threads>>

\* line 342: cutoff_date = datetime.now() - timedelta(days=self.auto_delete_days)
CleanupOldRecordings_L342(p) ==
    /\ procs[p].pc = "L342"
    /\ \E time \in TimesOfDay :
         procs' = [procs EXCEPT
            ![p].pc = "L345",
            ![p].cutoff_date = [day |-> toordinal(CurrentDate) - auto_delete_days,
                                time |-> time]]
    /\ UNCHANGED <<environment, configuration, is_recording, recording_thread,
                   storage, last_return, calls, threads>>

\* lines 343-356: the directory is listed and swept, the count returned.  An
\* OSError out of listdir or rmtree (lines 358-359) is not modelled.
CleanupOldRecordings_L345(p) ==
    /\ procs[p].pc = "L345"
    /\ folders' = folders \ Swept(folders, procs[p].cutoff_date)
    /\ deleted_count' = Cardinality(Swept(folders, procs[p].cutoff_date))
    /\ ReturnMessage(p, "Deleted")
    /\ UNCHANGED <<environment, configuration, is_recording, recording_thread,
                   taken, calls, threads>>

\* what the recordings directory can hold when the program starts: date folders
\* of earlier days, a folder named for no day of the calendar, a stray file
OldEntries ==
    {strftime([year |-> 2023, month |-> 12, day |-> 16]),
     strftime([year |-> 2024, month |-> 1, day |-> 1]),
     strftime([year |-> 2024, month |-> 1, day |-> 8]),
     strftime([year |-> 2024, month |-> 1, day |-> 10]),
     strftime([year |-> 2024, month |-> 13, day |-> 1]),
     <<"t", "m", "p">>}

Archives ==
    {{},
     {strftime([year |-> 2024, month |-> 1, day |-> 1]),
      strftime([year |-> 2024, month |-> 1, day |-> 10])},
     OldEntries}

InitRetention == \E e \in RecEnvironments, entries \in Archives : Restart(e, entries)

NextRetention ==
    \/ InitCamera
    \/ \E p \in Procs : CallStartRecording(p, NoDuration)
    \/ \E p \in Procs : StartRecording_L199(p)
    \/ \E p \in Procs : StartRecording_L203(p)
    \/ \E p \in Procs : StartRecording_L204(p)
    \/ \E p \in Procs : StartRecording_L220(p)
    \/ \E t \in ThreadSlots : RecordVideo_L227(t)
    \/ \E t \in ThreadSlots : RecordVideo_L232(t)
    \/ \E t \in ThreadSlots : RecordVideo_L192(t)
    \/ \E t \in ThreadSlots : RecordVideo_L236(t)
    \/ \E t \in ThreadSlots : RecordVideo_L253(t)
    \/ \E t \in ThreadSlots : RecordVideo_L245(t)
    \/ \E t \in ThreadSlots : RecordVideo_L250(t)
    \/ \E t \in ThreadSlots : RecordVideo_L256(t)
    \/ Advance
    \/ \E days \in AutoDeleteInputs : SetAutoDelete(days)
    \/ \E p \in Procs : CallCleanupOld(p)
    \/ \E p \in Procs : CleanupOldRecordings_L342(p)
    \/ \E p \in Procs : CleanupOldRecordings_L345(p)

SpecRetention == InitRetention /\ [][NextRetention]_vars

-----------------------------------------------------------------------------
(* Properties of the recorder, checked under Spec *)

\* the threads whose capture loop has not been left
LiveLoops == {t \in ThreadIds : threads[t].pc \in {"L227", "L232", "L192", "L236", "L245"}}

\* who is inside camera_adapter.get_frame
CapturingThreads == {t \in ThreadIds : threads[t].pc = "L192"}
CapturingHandlers == {p \in Procs : procs[p].pc = "L192"}

\* C1: mutual exclusion of recordings: in every reachable state at most one
\* capture loop is live, whatever the interleaving of start_recording calls
\* (manual or from motion_detected).
C1_AtMostOneLiveLoop == Cardinality(LiveLoops) <= 1

\* C2: sink closure on every exit path: a recording thread that has ended has
\* closed the sink it opened, whichever way its loop was left.
C2_SinkClosedOnExit ==
    \A t \in ThreadIds : threads[t].pc = "done" => threads[t].sink # "open"

\* C3: duration cap: a thread whose duration was given (is not None) leaves its
\* loop at the first duration test at which the elapsed time is >= the cap.
C3_CapEndsLoop ==
    [][\A t \in ThreadIds :
         (/\ threads[t].pc = "L245"
          /\ threads'[t].pc # "L245"
          /\ threads[t].duration # NoDuration
          /\ threads[t].elapsed >= threads[t].duration)
         => threads'[t].pc = "L250"]_vars

\* the step of handler p leaves everything but p's own locals as it was
NoEffect(p) ==
    /\ UNCHANGED <<environment, configuration, is_recording, recording_thread,
                   storage, threads>>
    /\ \A q \in Procs \ {p} : procs'[q] = procs[q]

\* handler p, serving a motion edge, takes a step that ends the handler
EdgeEnds(p) ==
    /\ procs[p].op = "motion_detected"
    /\ procs[p].pc # "idle"
    /\ procs'[p].pc = "idle"

\* the step adds exactly one recording thread, of origin "motion" and with the
\* cap recording_duration
StartsMotionRecording ==
    threads' = Append(threads, NewThread("motion", recording_duration))

\* an edge arriving disarmed or while is_recording is set changes no state and
\* leaves nothing behind
EdgeIgnored(p) ==
    (/\ procs[p].pc = "L184"
     /\ procs'[p] # procs[p]
     /\ ~(motion_detection_enabled /\ ~is_recording))
    => /\ NoEffect(p)
       /\ procs'[p] = IdleProc
       /\ last_return' = last_return

\* C4 as claimed: an edge that finds the system armed and not recording starts
\* exactly one recording (origin "motion", cap recording_duration) before its
\* handler ends; any other edge changes no state and is not remembered.  (An
\* edge whose folder could not be made is not held against the claim.)
C4_EdgeStartsOneRecording ==
    [][\A p \in Procs :
         /\ EdgeIgnored(p)
         /\ (EdgeEnds(p) /\ procs[p].trigger = "motion")
            => (StartsMotionRecording \/ last_return' = "Recording failed")]_vars

\* C4 as amended: an edge that finds the system armed and not recording calls
\* start_recording(duration=recording_duration, trigger="motion") once; that call
\* starts exactly one recording with that origin and cap, unless it returns
\* "Already recording" (another start set the flag in between) or "Recording
\* failed" (making the folder raised), and then it starts none.  Any other edge
\* changes no state and is not remembered.  Recordings of origin "motion" are
\* started by nothing else.
C4_MotionTrigger ==
    [][/\ \A p \in Procs :
            /\ EdgeIgnored(p)
            /\ (/\ procs[p].pc = "L184"
                /\ procs'[p] # procs[p]
                /\ motion_detection_enabled /\ ~is_recording)
               => /\ NoEffect(p)
                  /\ last_return' = last_return
                  /\ procs'[p] = [procs[p] EXCEPT !.pc = "L199",
                                                  !.trigger = "motion",
                                                  !.duration = recording_duration]
            /\ EdgeEnds(p)
               => /\ procs'[p] = IdleProc
                  /\ \/ StartsMotionRecording /\ last_return' = "Recording started"
                     \/ /\ threads' = threads
                        /\ \/ procs[p].pc = "L184"
                           \/ last_return' \in {"Already recording", "Recording failed"}
       /\ (Len(threads') > Len(threads) /\ threads'[Len(threads')].trigger = "motion")
            => /\ StartsMotionRecording
               /\ \E p \in Procs : EdgeEnds(p) /\ procs[p].pc = "L204"]_vars

\* a recording of origin "motion", with the cap recording_duration, is running
C4_Witness ==
    \E t \in LiveLoops : /\ threads[t].trigger = "motion"
                         /\ threads[t].duration = recording_duration

\* C5: exclusive camera access: never two callers inside the adapter's capture
\* at the same time.
C5_ExclusiveCapture ==
    Cardinality(CapturingThreads) + Cardinality(CapturingHandlers) <= 1

\* C6: start_recording called while is_recording is set returns
\* (False, "Already recording") and changes nothing: no thread, no folder, the
\* flag still set.
C6_AlreadyRecording ==
    [][\A p \in Procs :
         (procs[p].pc = "L199" /\ procs'[p] # procs[p] /\ is_recording)
         => /\ last_return' = "Already recording"
            /\ ~Succeeded(last_return')
            /\ procs'[p] = IdleProc
            /\ NoEffect(p)
            /\ is_recording']_vars

\* a start was refused while a recording runs on
C6_Witness ==
    /\ last_return = "Already recording"
    /\ is_recording
    /\ LiveLoops # {}

\* C7: stop_recording called while is_recording is clear returns
\* (False, "Not currently recording") and changes nothing.
C7_NotRecording ==
    [][\A p \in Procs :
         (procs[p].pc = "L260" /\ procs'[p] # procs[p] /\ ~is_recording)
         => /\ last_return' = "Not currently recording"
            /\ ~Succeeded(last_return')
            /\ procs'[p] = IdleProc
            /\ NoEffect(p)
            /\ ~is_recording']_vars

\* a stop was refused, after a recording had been made and had ended
C7_Witness ==
    /\ last_return = "Not currently recording"
    /\ ~is_recording
    /\ \E t \in ThreadIds : threads[t].pc = "done"

\* C12: sink open failure: when the sink of a new recording cannot be created
\* the start attempt is aborted: the start reports failure, is_recording is
\* False again and no capture loop runs for that attempt.
C12_SinkOpenFailureAborts ==
    [][\A t \in ThreadIds :
         (threads[t].pc = "L227" /\ threads'[t].sink = "failed")
         => /\ t \notin {u \in ThreadIds : threads'[u].pc \in {"L232", "L192", "L236", "L245"}}
            /\ ~is_recording'
            /\ ~Succeeded(last_return')]_vars

\* C13: a missing frame is a skipped tick: a capture that returns no frame (or
\* raises, which get_frame turns into no frame) writes nothing and does not end
\* the recording; the thread goes on to the duration test and, unless the cap is
\* reached or a stop was requested, to the next tick.
C13_MissingFrameSkipsTick ==
    [][\A t \in ThreadIds :
         /\ (/\ threads[t].pc = "L192"
             /\ threads'[t].pc # "L192"
             /\ threads'[t].frame = "none")
            => /\ threads'[t].pc = "L245"
               /\ threads'[t].sink = threads[t].sink
               /\ is_recording' = is_recording
         /\ (/\ threads[t].pc = "L245"
             /\ threads[t].frame = "none"
             /\ threads'[t].pc # "L245"
             /\ ~CapReached(threads[t].duration, threads[t].elapsed))
            => /\ threads'[t].pc = "L232"
               /\ is_recording' = is_recording
         /\ (/\ threads[t].pc = "L232"
             /\ threads'[t].pc # "L232"
             /\ is_recording)
            => threads'[t].pc = "L192"]_vars

\* a tick found no frame and the recording is still active, its sink open
C13_Witness ==
    \E t \in ThreadIds : /\ threads[t].pc = "L245"
                         /\ threads[t].frame = "none"
                         /\ threads[t].sink = "open"
                         /\ is_recording

\* C15: live-frame requests do not touch the recorder: every step of a
\* request_frame handler, whatever else is running, leaves is_recording, the
\* recording thread and every recording thread's state, the settings, the
\* motion flag and auto_delete_days as they were, and returns no recorder
\* message.
C15_FrameRequestsLeaveRecorder ==
    [][\A p \in Procs :
         (/\ procs'[p] # procs[p]
          /\ "handle_frame_request" \in {procs[p].op, procs'[p].op})
         => /\ NoEffect(p)
            /\ last_return' = last_return]_vars

\* two viewers are being served while a recording runs
C15_Witness ==
    /\ \A p \in Procs : procs[p].op = "handle_frame_request"
    /\ CapturingHandlers # {}
    /\ is_recording
    /\ LiveLoops # {}

\* handler p is inside stop_recording, past the gate: the recording it stops was
\* active
Stopping(p) == procs[p].op = "stop_recording" /\ procs[p].pc \in {"L263", "L264", "L265"}

C16_StoppedLoopNotRevived ==
    [][\A t \in ThreadIds :
         (/\ threads[t].stopped
          /\ \A p \in Procs : ~Stopping(p)
          /\ threads[t].pc = "L232")
         => threads'[t].pc # "L192"]_vars

\* C17: a recording is ended only by its own stop, cap or failure: when the
\* thread of an earlier, stopped recording ends (line 256) while the latest
\* recording is in its loop with is_recording set (and no other start is under
\* way), the flag stays set.
C17_EndedOnlyByOwnExit ==
    [][\A t \in ThreadIds :
         (/\ threads[t].pc = "L256"
          /\ threads'[t].pc = "done"
          /\ threads[t].stopped
          /\ recording_thread # t
          /\ recording_thread \in LiveLoops
          /\ is_recording
          /\ \A p \in Procs : procs[p].pc # "L204")
         => is_recording']_vars

\* C18: distinct recordings get distinct files: a start_recording that succeeds
\* (here: with every earlier recording ended and no other start under way)
\* derives a path no earlier start has derived, so never the name of its own
\* origin in the clock second another start already took.
C18_DistinctPaths ==
    [][(/\ Len(threads') > Len(threads)
        /\ LiveLoops = {}
        /\ Cardinality(Starting) = 1)
         => threads'[Len(threads')].trigger \notin taken]_vars

-----------------------------------------------------------------------------
(* Properties of the configuration, checked under SpecConfig *)

\* C8: update_camera_setting with a key outside the fixed key set returns
\* failure and leaves camera_settings as it was; the key set never changes.
C8_UnknownSettingRejected ==
    [][/\ DOMAIN camera_settings' = SettingKeys
       /\ \A p \in Procs :
            (/\ procs[p].pc = "L271"
             /\ procs'[p] # procs[p]
             /\ procs[p].setting \notin SettingKeys)
            => /\ last_return' = "Invalid setting"
               /\ ~Succeeded(last_return')
               /\ camera_settings' = camera_settings]_vars

\* an unknown key was rejected after a known one had been changed
C8_Witness ==
    /\ last_return = "Invalid setting"
    /\ camera_settings # InitialSettings

\* C9: camera factory totality: whatever is importable and whatever constructor
\* raises, after init_camera self.camera_adapter is an adapter, the synthetic
\* one when neither backend could be constructed.
C9_FactoryTotal ==
    constructed =>
        /\ camera_adapter \in Adapters
        /\ (~ctor_ok.hardware /\ ~ctor_ok.generic)
              => camera_adapter = "SyntheticCameraAdapter"

\* the hardware constructor raised, the generic one would have too
C9_Witness ==
    /\ constructed
    /\ PICAMERA_AVAILABLE /\ ~ctor_ok.hardware /\ ~ctor_ok.generic
    /\ camera_adapter = "SyntheticCameraAdapter"

\* the first backend, in the order hardware, generic, synthetic, whose
\* construction succeeds
FirstWorking ==
    IF ctor_ok.hardware THEN "PiCameraAdapter"
    ELSE IF ctor_ok.generic THEN "OpenCVCameraAdapter"
    ELSE "SyntheticCameraAdapter"

\* C10: fallback order: init_camera selects the first backend whose construction
\* succeeds, and tries the generic device whenever hardware yields no adapter.
C10_FallbackOrder ==
    constructed =>
        /\ camera_adapter = FirstWorking
        /\ ~ctor_ok.hardware =>
              \E i \in DOMAIN init_camera(PICAMERA_AVAILABLE, ctor_ok).tried :
                  init_camera(PICAMERA_AVAILABLE, ctor_ok).tried[i] = "OpenCVCameraAdapter"

\* C20: a failed setting update has no effect: whenever update_camera_setting
\* returns failure, for a known key as for an unknown one, camera_settings is as
\* it was before the call.
C20_FailedUpdateNoEffect ==
    [][\A p \in Procs :
         (/\ procs[p].pc = "L271"
          /\ procs'[p].pc = "idle"
          /\ ~Succeeded(last_return'))
         => camera_settings' = camera_settings]_vars

-----------------------------------------------------------------------------
(* Properties of the retention sweep, checked under SpecRetention *)

\* the name is a YYYY-MM-DD date, and that day (its first instant) is strictly
\* older than the instant `cutoff`
StrictlyOlder(name, cutoff) ==
    /\ strptime(name).ok
    /\ \/ toordinal(strptime(name)) < cutoff.day
       \/ toordinal(strptime(name)) = cutoff.day /\ cutoff.time > 0

C19_ActiveFolderKept ==
    (\E t \in LiveLoops : threads[t].sink = "open") => Today \in folders

====
